---------------------------- MODULE Spec2Model ----------------------------
(***************************************************************************)
(* A model of the job-alert bot (bot.py): the title and location filters,  *)
(* the notification dispatch, and the fetch / filter / notify / persist    *)
(* cycle of main() over the seen-state file.                               *)
(*                                                                         *)
(* Python strings are modelled as sequences of one-character strings, so   *)
(* that lower(), substring tests and case-insensitive search are computed. *)
(***************************************************************************)
EXTENDS Naturals, Sequences, FiniteSets, TLC

VARIABLES
    pc,          \* position of main(): see the actions below
    run,         \* number of the current invocation of main()
    seenFile,    \* seen.json: [st |-> "absent" | "ok" | "corrupt", ids |-> list]
    boards,      \* the answers the job boards give to the adapters in this run
    filters,     \* filters.yml as loaded by load_yaml
    creds,       \* the six credential variables read at import time
    seen_ids,    \* main(): seen_ids
    new_seen,    \* main(): new_seen
    all_jobs,    \* main(): all_jobs
    ci,          \* main(): index in the company list being fetched
    idx,         \* main(): index of the filter loop in all_jobs
    new_count,   \* main(): new_count
    notifyCalls, \* history: the calls of notify() made in this run
    sameBoards,  \* history: the boards answer as they did in the previous run
    fetched,     \* history: the source families whose adapter main() has called
    delivered,   \* history: the ids delivered to a sink in earlier runs
    call         \* the call under study in the specifications of single functions

mainVars == <<pc, run, seenFile, boards, filters, creds, seen_ids, new_seen,
              all_jobs, ci, idx, new_count, notifyCalls, sameBoards, fetched,
              delivered>>
vars == <<pc, run, seenFile, boards, filters, creds, seen_ids, new_seen,
          all_jobs, ci, idx, new_count, notifyCalls, sameBoards, fetched,
          delivered, call>>

-----------------------------------------------------------------------------
(* Bounds *)

\* longest pattern list (include / exclude / must-have-all) and hint list drawn
MaxPat == 2
\* longest location list drawn for location_matches
MaxLocs == 2
\* number of answers the gateway / chat-bot server is scripted to give
MaxAttempts == 3
\* number of successive invocations of main()
MaxRuns == 2
\* longest list handed to save_seen
MaxSave == 3
\* most items in the jobPostings list of a Workday response
MaxItems == 2

-----------------------------------------------------------------------------
(* Strings *)

UpperAlpha == <<"A","B","C","D","E","F","G","H","I","J","K","L","M",
                "N","O","P","Q","R","S","T","U","V","W","X","Y","Z">>
LowerAlpha == <<"a","b","c","d","e","f","g","h","i","j","k","l","m",
                "n","o","p","q","r","s","t","u","v","w","x","y","z">>

IsUpper(c) == \E k \in 1..26 : UpperAlpha[k] = c
IsLower(c) == \E k \in 1..26 : LowerAlpha[k] = c

\* one character of str.lower()
LowerChar(c) ==
    IF IsUpper(c) THEN LowerAlpha[CHOOSE k \in 1..26 : UpperAlpha[k] = c] ELSE c

UpperChar(c) ==
    IF IsLower(c) THEN UpperAlpha[CHOOSE k \in 1..26 : LowerAlpha[k] = c] ELSE c

\* str.lower()
Lower(s) == [k \in 1..Len(s) |-> LowerChar(s[k])]

\* str.title(): a letter that follows a non-letter is upper-cased, others lowered
Title(s) ==
    [k \in 1..Len(s) |->
        IF k = 1 \/ ~(IsUpper(s[k-1]) \/ IsLower(s[k-1]))
        THEN UpperChar(s[k]) ELSE LowerChar(s[k])]

\* Python's  sub in s
Contains(sub, s) ==
    \E k \in 0..Len(s) :
        /\ k + Len(sub) <= Len(s)
        /\ SubSeq(s, k + 1, k + Len(sub)) = sub

\* sep.join(parts)
RECURSIVE Join(_, _)
Join(sep, parts) ==
    IF parts = <<>> THEN <<>>
    ELSE IF Len(parts) = 1 THEN parts[1]
    ELSE parts[1] \o sep \o Join(sep, Tail(parts))

SeqsUpTo(S, n) == UNION {[1..k -> S] : k \in 0..n}

T_SeniorEngineer == <<"S", "e", "n", "i", "o", "r", " ", "E", "n", "g", "i", "n", "e", "e", "r">>
T_SeniorManager == <<"S", "e", "n", "i", "o", "r", " ", "M", "a", "n", "a", "g", "e", "r">>
T_StaffEngineer == <<"S", "t", "a", "f", "f", " ", "E", "n", "g", "i", "n", "e", "e", "r">>
T_EngineerIntern == <<"S", "e", "n", "i", "o", "r", " ", "E", "n", "g", "i", "n", "e", "e", "r", " ", "i", "n", "t", "e", "r", "n">>
P_senior == <<"s", "e", "n", "i", "o", "r">>
P_engineer == <<"e", "n", "g", "i", "n", "e", "e", "r">>
P_Intern == <<"I", "n", "t", "e", "r", "n">>
L_Austin == <<"A", "u", "s", "t", "i", "n", ",", " ", "U", "n", "i", "t", "e", "d", " ", "S", "t", "a", "t", "e", "s">>
L_Toronto == <<"T", "o", "r", "o", "n", "t", "o", ",", " ", "C", "a", "n", "a", "d", "a">>
L_Seattle == <<"S", "e", "a", "t", "t", "l", "e", ",", " ", "U", "S">>
H_UnitedStates == <<"U", "n", "i", "t", "e", "d", " ", "S", "t", "a", "t", "e", "s">>
H_us == <<"u", "s">>
C_acme == <<"a", "c", "m", "e">>
C_amazon == <<"a", "m", "a", "z", "o", "n">>
C_nvidia == <<"n", "v", "i", "d", "i", "a">>
CommaSpace == <<",", " ">>
LocationNA == <<"L", "o", "c", "a", "t", "i", "o", "n", ":", " ", "N", "/", "A">>

Titles == {T_SeniorEngineer, T_SeniorManager, T_StaffEngineer, T_EngineerIntern}
\* the patterns drawn are literal words: a regular expression without
\* metacharacters, which re.search finds anywhere in the text
Patterns == {P_senior, P_engineer, P_Intern}
LocationStrings == {L_Austin, L_Toronto, L_Seattle}
Hints == {H_UnitedStates, H_us}

-----------------------------------------------------------------------------
(* The filter engine *)

\* re.search(p, t, flags=re.I) for a literal pattern p: p occurs in t, letter
\* case ignored on both sides
re_search(p, t) == Contains(Lower(p), Lower(t))

\* title_matches with the exclusions tested after the include list
title_matches_include_first(title, include_any, exclude_any, must_all) ==
    LET t == Lower(title) IN
    IF include_any # <<>> /\ \E k \in 1..Len(include_any) : re_search(include_any[k], t)
    THEN TRUE
    ELSE IF \E k \in 1..Len(exclude_any) : re_search(exclude_any[k], t)
    THEN FALSE
    ELSE IF must_all # <<>> /\ \E k \in 1..Len(must_all) : ~re_search(must_all[k], t)
    THEN FALSE
    ELSE include_any = <<>>

\* title_matches(title, include_any, exclude_any, must_all=None); an absent
\* (None) list and an empty list are both falsy and are both written <<>>
title_matches(title, include_any, exclude_any, must_all) ==
    LET t == Lower(title) IN
    IF \E k \in 1..Len(exclude_any) : re_search(exclude_any[k], t)
    THEN FALSE
    ELSE IF must_all # <<>> /\ \E k \in 1..Len(must_all) : ~re_search(must_all[k], t)
    THEN FALSE
    ELSE IF include_any # <<>>
    THEN \E k \in 1..Len(include_any) : re_search(include_any[k], t)
    ELSE TRUE

\* location_matches that accepts a posting without locations
location_matches_lenient(locations, allowed) ==
    IF allowed = <<>> THEN TRUE
    ELSE IF locations = <<>> THEN TRUE
    ELSE \E l \in 1..Len(locations) :
            \E a \in 1..Len(allowed) :
                Contains(Lower(allowed[a]), Lower(locations[l]))

\* location_matches(locations, allowed)
location_matches(locations, allowed) ==
    IF allowed = <<>> THEN TRUE
    ELSE IF locations = <<>> THEN FALSE
    ELSE \E l \in 1..Len(locations) :
            \E a \in 1..Len(allowed) :
                Contains(Lower(allowed[a]), Lower(locations[l]))

\* format_msg(job)
format_msg(job) ==
    [title     |-> job.title,
     company   |-> Title(job.company),
     locations |-> IF job.locations # <<>>
                   THEN Join(CommaSpace, job.locations) ELSE LocationNA,
     url       |-> job.url]

-----------------------------------------------------------------------------
(* The notifier *)

\* what the HTTP server does with one request: an answer with a status code,
\* or no answer (requests.post raises: timeout, connection error)
Responses ==
    {[exc |-> FALSE, code |-> 200],
     [exc |-> FALSE, code |-> 429],
     [exc |-> FALSE, code |-> 500],
     [exc |-> TRUE,  code |-> 0]}

\* Response.raise_for_status() raises
raise_for_status(r) == r.code >= 400 /\ r.code < 600

\* the request of a send fails: requests.post raised or raise_for_status did
RequestFails(r) == r.exc \/ raise_for_status(r)

CredNames == {"TELEGRAM_BOT_TOKEN", "TELEGRAM_CHAT_ID",
              "TWILIO_SID", "TWILIO_TOKEN", "TWILIO_FROM", "TWILIO_TO"}

\* telegram_send(text); script[k] is the server's answer to the k-th request
telegram_send(text, script) ==
    IF ~creds["TELEGRAM_BOT_TOKEN"] \/ ~creds["TELEGRAM_CHAT_ID"]
    THEN [sink |-> "none", text |-> text, requests |-> 0, raised |-> FALSE]
    ELSE [sink |-> "telegram", text |-> text, requests |-> 1,
          raised |-> RequestFails(script[1])]

\* twilio_send that sends again after a rate-limit answer (429), up to
\* three requests
twilio_send_retry(text, script) ==
    IF ~(creds["TWILIO_SID"] /\ creds["TWILIO_TOKEN"]
         /\ creds["TWILIO_FROM"] /\ creds["TWILIO_TO"])
    THEN [sink |-> "none", text |-> text, requests |-> 0, raised |-> FALSE]
    ELSE LET limited(k) == ~script[k].exc /\ script[k].code = 429
             n == IF ~limited(1) THEN 1 ELSE IF ~limited(2) THEN 2 ELSE 3
         IN [sink |-> "twilio", text |-> text, requests |-> n,
             raised |-> RequestFails(script[n])]

\* twilio_send(text)
twilio_send(text, script) ==
    IF ~(creds["TWILIO_SID"] /\ creds["TWILIO_TOKEN"]
         /\ creds["TWILIO_FROM"] /\ creds["TWILIO_TO"])
    THEN [sink |-> "none", text |-> text, requests |-> 0, raised |-> FALSE]
    ELSE [sink |-> "twilio", text |-> text, requests |-> 1,
          raised |-> RequestFails(script[1])]

\* notify(text): the sink the text went to, the requests made, and whether
\* an exception left notify
notify(text, script) ==
    IF creds["TELEGRAM_BOT_TOKEN"] /\ creds["TELEGRAM_CHAT_ID"]
    THEN telegram_send(text, script)
    ELSE IF creds["TWILIO_SID"]
    THEN twilio_send(text, script)
    ELSE [sink |-> "stdout", text |-> text, requests |-> 0, raised |-> FALSE]

-----------------------------------------------------------------------------
(* The postings, the configuration and the seen-state file *)

\* the dicts the source adapters append (id, source, company, title, url, locations)
J_greenhouse ==
    [id |-> "greenhouse:acme:1", source |-> "greenhouse", company |-> C_acme,
     title |-> T_SeniorEngineer, url |-> "https://boards.greenhouse.io/acme/jobs/1",
     locations |-> <<L_Austin>>]
J_lever ==
    [id |-> "lever:acme:2", source |-> "lever", company |-> C_acme,
     title |-> T_StaffEngineer, url |-> "https://jobs.lever.co/acme/2",
     locations |-> <<>>]
J_workday ==
    [id |-> "workday:nvidia::3", source |-> "workday", company |-> C_nvidia,
     title |-> T_SeniorManager, url |-> "https://nvidia.wd5.myworkdayjobs.com/job/3",
     locations |-> <<L_Toronto>>]
J_amazon ==
    [id |-> "amazon:4", source |-> "amazon", company |-> C_amazon,
     title |-> T_EngineerIntern, url |-> "https://www.amazon.jobs/en/jobs/4",
     locations |-> <<L_Seattle>>]

Jobs == {J_greenhouse, J_lever, J_workday, J_amazon}
Ids == {j.id : j \in Jobs}

\* the order of Python's string comparison on the ids above
IdRank(id) ==
    CASE id = "amazon:4"          -> 1
      [] id = "greenhouse:acme:1" -> 2
      [] id = "lever:acme:2"      -> 3
      [] id = "workday:nvidia::3" -> 4

\* companies.yml: one company per source family, amazon switched on
companies ==
    [greenhouse |-> <<"acme">>, lever |-> <<"acme">>,
     workday_cxs |-> <<"nvidia">>, amazon |-> TRUE]

\* the filters.yml files drawn
FilterConfigs ==
    {[include_titles |-> <<>>, exclude_titles |-> <<>>,
      must_have_all |-> <<>>, locations_any_of |-> <<>>],
     [include_titles |-> <<P_engineer>>, exclude_titles |-> <<>>,
      must_have_all |-> <<P_senior>>, locations_any_of |-> <<>>],
     [include_titles |-> <<P_engineer>>, exclude_titles |-> <<P_Intern>>,
      must_have_all |-> <<>>, locations_any_of |-> <<H_UnitedStates>>]}

\* the credential environments drawn for runs of main(): chat bot configured,
\* gateway configured, only TWILIO_SID set, nothing set
Present(S) == [n \in CredNames |-> n \in S]
MainCreds ==
    {Present({"TELEGRAM_BOT_TOKEN", "TELEGRAM_CHAT_ID"}),
     Present({"TWILIO_SID", "TWILIO_TOKEN", "TWILIO_FROM", "TWILIO_TO"}),
     Present({"TWILIO_SID"}),
     Present({})}

Range(f) == {f[k] : k \in DOMAIN f}

\* sorted(ids) on a collection of distinct id strings
RECURSIVE sorted(_)
sorted(S) ==
    IF S = {} THEN <<>>
    ELSE LET m == CHOOSE x \in S : \A y \in S : IdRank(x) <= IdRank(y)
         IN <<m>> \o sorted(S \ {m})

\* load_seen(): the parsed file, the default when there is none; the caller
\* tests seenFile.st = "corrupt" for the json.loads error
load_seen == IF seenFile.st = "ok" THEN [ids |-> seenFile.ids] ELSE [ids |-> <<>>]

\* load_seen() that takes an unparsable file for an empty one
load_seen_raises_never == FALSE
\* load_seen(): json.loads raises on a file that is not the JSON object expected
load_seen_raises == seenFile.st = "corrupt"

\* sorted(seen_ids) on a list: insertion by rank, equal entries are kept
RECURSIVE sorted_list(_)
sorted_list(ids) ==
    IF ids = <<>> THEN <<>>
    ELSE LET rest == sorted_list(Tail(ids))
             before == SelectSeq(rest, LAMBDA x : IdRank(x) < IdRank(Head(ids)))
             after == SelectSeq(rest, LAMBDA x : IdRank(x) >= IdRank(Head(ids)))
         IN before \o <<Head(ids)>> \o after

\* save_seen that writes the first id only
save_seen_first(ids) ==
    [st |-> "ok", ids |-> IF ids = <<>> THEN <<>> ELSE <<Head(ids)>>]
\* save_seen(seen_ids): the file after a completed write_text
save_seen(ids) == [st |-> "ok", ids |-> sorted_list(ids)]

\* write_text opens the file for writing, which empties it, before it writes:
\* the file between the two is not a JSON document
Truncated == [st |-> "corrupt", ids |-> <<>>]

-----------------------------------------------------------------------------
(* The source adapters, as main() sees them *)

\* what a call of an adapter gives main(): a list of postings, or an exception
Returns(jobs) == [raised |-> FALSE, jobs |-> jobs]
Raises == [raised |-> TRUE, jobs |-> <<>>]

\* the answers the job boards give during one run, per source family.
\* fetch_greenhouse and fetch_lever raise on a request error, an error status or
\* an unparsable body; fetch_workday_cxs and fetch_amazon catch every exception
\* inside and return what they have; a listing of amazon that shifts between
\* two page requests yields a posting once per page it was on
BoardStates ==
    [greenhouse : {Raises, Returns(<<>>), Returns(<<J_greenhouse>>)},
     lever      : {Raises, Returns(<<>>), Returns(<<J_lever>>)},
     workday    : {Returns(<<>>), Returns(<<J_workday>>)},
     amazon     : {Returns(<<>>), Returns(<<J_amazon>>),
                   Returns(<<J_amazon, J_amazon>>)}]

\* fetch_greenhouse(company)
fetch_greenhouse(company) == boards.greenhouse

\* fetch_lever(company)
fetch_lever(company) == boards.lever

\* fetch_workday_cxs(tenant, query, limit)
fetch_workday_cxs(tenant) == boards.workday

\* fetch_amazon()
fetch_amazon == boards.amazon

-----------------------------------------------------------------------------
(* main() *)

\* main(): the three filter lists it reads from filters.yml
include_patterns == filters.include_titles
exclude_patterns == filters.exclude_titles
allowed_locations == filters.locations_any_of

\* the posting is skipped as already seen
AlreadySeenNever(job) == FALSE
\* the test made against the set loaded at the start
AlreadySeenAtStart(job) == job.id \in seen_ids
AlreadySeen(job) == job.id \in new_seen

\* the posting passes the title and the location test of the filter loop
PassesFilters(job) ==
    /\ title_matches(job.title, include_patterns, exclude_patterns, <<>>)
    /\ location_matches(job.locations, allowed_locations)

\* new_seen left empty instead of copied from seen_ids
CopyOfSeenEmpty(ids) == {}
\* new_seen = set(seen_ids)
CopyOfSeen(ids) == ids

\* the id is not recorded after notify
AddSeenNot(s, id) == s
\* the id replaces the set
AddSeenReplace(s, id) == {id}
\* new_seen.add(job["id"])
AddSeen(s, id) == s \cup {id}

NoCall == [op |-> "none"]

\* seen.json before the first run drawn: no file, an unparsable file, or a file
\* written by an earlier run that holds no id, one id or every id
SeenFilesAtStart ==
    {[st |-> "absent", ids |-> <<>>], [st |-> "corrupt", ids |-> <<>>]}
    \cup {[st |-> "ok", ids |-> sorted(S)] :
             S \in {T \in SUBSET Ids : Cardinality(T) <= 1 \/ T = Ids}}

Init ==
    /\ pc = "start"
    /\ run = 1
    /\ seenFile \in SeenFilesAtStart
    /\ boards \in BoardStates
    /\ filters \in FilterConfigs
    /\ creds \in MainCreds
    /\ seen_ids = {}
    /\ new_seen = {}
    /\ all_jobs = <<>>
    /\ ci = 1
    /\ idx = 1
    /\ new_count = 0
    /\ notifyCalls = <<>>
    /\ sameBoards = FALSE
    /\ fetched = <<>>
    /\ delivered = {}
    /\ call = NoCall

\* main() up to the fetch loops: load_yaml twice, load_seen, the two sets.
\* An unparsable seen.json makes json.loads raise, and the exception leaves main()
LoadSeen ==
    /\ pc = "start"
    /\ IF load_seen_raises
       THEN /\ pc' = "aborted"
            /\ UNCHANGED <<seen_ids, new_seen>>
       ELSE /\ pc' = "greenhouse"
            /\ seen_ids' = Range(load_seen.ids)
            /\ new_seen' = CopyOfSeen(Range(load_seen.ids))
    /\ all_jobs' = <<>>
    /\ ci' = 1
    /\ UNCHANGED <<run, seenFile, boards, filters, creds, idx, new_count,
                   notifyCalls, sameBoards, fetched, delivered, call>>

\* a fetch loop without its try/except: the adapter's exception leaves main()
FetchStepUncaught(phase, list, outcome, nextPhase) ==
    /\ pc = phase
    /\ ci <= Len(list)
    /\ all_jobs' = IF outcome.raised THEN all_jobs ELSE all_jobs \o outcome.jobs
    /\ fetched' = Append(fetched, phase)
    /\ IF outcome.raised
       THEN pc' = "aborted" /\ ci' = ci
       ELSE IF ci = Len(list)
       THEN pc' = nextPhase /\ ci' = 1
       ELSE pc' = pc /\ ci' = ci + 1
    /\ UNCHANGED <<run, seenFile, boards, filters, creds, seen_ids, new_seen,
                   idx, new_count, notifyCalls, sameBoards, delivered, call>>

\* one pass of a fetch loop of main(): the adapter's list is appended, its
\* exception is caught and logged
FetchStep(phase, list, outcome, nextPhase) ==
    /\ pc = phase
    /\ ci <= Len(list)
    /\ all_jobs' = IF outcome.raised THEN all_jobs ELSE all_jobs \o outcome.jobs
    /\ fetched' = Append(fetched, phase)
    /\ IF ci = Len(list)
       THEN pc' = nextPhase /\ ci' = 1
       ELSE pc' = pc /\ ci' = ci + 1
    /\ UNCHANGED <<run, seenFile, boards, filters, creds, seen_ids, new_seen,
                   idx, new_count, notifyCalls, sameBoards, delivered, call>>

FetchGreenhouse ==
    FetchStep("greenhouse", companies.greenhouse,
              fetch_greenhouse(companies.greenhouse[ci]), "lever")

FetchLever ==
    FetchStep("lever", companies.lever,
              fetch_lever(companies.lever[ci]), "workday")

FetchWorkday ==
    FetchStep("workday", companies.workday_cxs,
              fetch_workday_cxs(companies.workday_cxs[ci]), "amazon")

FetchAmazon ==
    /\ pc = "amazon"
    /\ companies.amazon
    /\ all_jobs' = IF fetch_amazon.raised THEN all_jobs
                   ELSE all_jobs \o fetch_amazon.jobs
    /\ fetched' = Append(fetched, "amazon")
    /\ pc' = "filter"
    /\ idx' = 1
    /\ new_count' = 0
    /\ UNCHANGED <<run, seenFile, boards, filters, creds, seen_ids, new_seen,
                   ci, notifyCalls, sameBoards, delivered, call>>

\* one pass of the filter loop: the three tests, then notify(format_msg(job)),
\* then the id is added. An exception of notify leaves main().
FilterStep ==
    /\ pc = "filter"
    /\ idx <= Len(all_jobs)
    /\ LET job == all_jobs[idx] IN
       IF AlreadySeen(job) \/ ~PassesFilters(job)
       THEN /\ idx' = idx + 1
            /\ UNCHANGED <<pc, new_seen, new_count, notifyCalls>>
       ELSE \E resp \in Responses :
            LET r == notify(format_msg(job), [k \in 1..MaxAttempts |-> resp]) IN
            /\ notifyCalls' = Append(notifyCalls,
                                     [id |-> job.id, sink |-> r.sink, text |-> r.text,
                                      raised |-> r.raised])
            /\ IF r.raised
               THEN /\ pc' = "aborted"
                    /\ UNCHANGED <<new_seen, new_count, idx>>
               ELSE /\ new_seen' = AddSeen(new_seen, job.id)
                    /\ new_count' = new_count + 1
                    /\ idx' = idx + 1
                    /\ pc' = pc
    /\ UNCHANGED <<run, seenFile, boards, filters, creds, seen_ids, all_jobs,
                   ci, sameBoards, fetched, delivered, call>>

\* the end of main(): the summary line and save_seen(sorted(list(new_seen)))
SaveSeen ==
    /\ pc = "filter"
    /\ idx > Len(all_jobs)
    /\ seenFile' = save_seen(sorted(new_seen))
    /\ pc' = "done"
    /\ UNCHANGED <<run, boards, filters, creds, seen_ids, new_seen, all_jobs,
                   ci, idx, new_count, notifyCalls, sameBoards, fetched,
                   delivered, call>>

\* a call of notify handed its text to a sink and returned
Delivered(c) == ~c.raised /\ c.sink # "none"

\* the ids delivered in this run
DeliveredNow ==
    {notifyCalls[k].id : k \in {n \in DOMAIN notifyCalls : Delivered(notifyCalls[n])}}

\* the answers of the boards that differ from b in at most one source family
OneChange(b) ==
    {c \in BoardStates :
        Cardinality({f \in DOMAIN b : c[f] # b[f]}) <= 1}

\* the periodic trigger starts main() again, in a fresh process; the boards
\* answer as before or one of them answers differently
NextRun ==
    /\ pc \in {"done", "aborted"}
    /\ run < MaxRuns
    /\ run' = run + 1
    /\ pc' = "start"
    /\ \E b \in OneChange(boards) :
          /\ boards' = b
          /\ sameBoards' = (b = boards)
    /\ seen_ids' = {}
    /\ new_seen' = {}
    /\ all_jobs' = <<>>
    /\ ci' = 1
    /\ idx' = 1
    /\ new_count' = 0
    /\ notifyCalls' = <<>>
    /\ fetched' = <<>>
    /\ delivered' = delivered \cup DeliveredNow
    /\ UNCHANGED <<seenFile, filters, creds, call>>

Next ==
    \/ LoadSeen
    \/ FetchGreenhouse
    \/ FetchLever
    \/ FetchWorkday
    \/ FetchAmazon
    \/ FilterStep
    \/ SaveSeen
    \/ NextRun

Spec == Init /\ [][Next]_vars

-----------------------------------------------------------------------------
(* Specifications of single functions: the arguments are drawn in the      *)
(* initial state, the action applies the function; main() does not run.    *)

MainIdleState ==
    /\ pc = "idle"
    /\ run = 1
    /\ boards \in {b \in BoardStates : \A f \in DOMAIN b : b[f] = Returns(<<>>)}
    /\ filters \in {f \in FilterConfigs : f.include_titles = <<>>}
    /\ seen_ids = {}
    /\ new_seen = {}
    /\ all_jobs = <<>>
    /\ ci = 1
    /\ idx = 1
    /\ new_count = 0
    /\ notifyCalls = <<>>
    /\ sameBoards = FALSE
    /\ fetched = <<>>
    /\ delivered = {}

MainIdle ==
    /\ MainIdleState
    /\ seenFile = [st |-> "absent", ids |-> <<>>]

\* the main variables but the seen-state file
idleVars == <<pc, run, boards, filters, creds, seen_ids, new_seen, all_jobs,
              ci, idx, new_count, notifyCalls, sameBoards, fetched, delivered>>

\* title_matches
InitTitle ==
    /\ MainIdle
    /\ creds = Present({})
    /\ \E t \in Titles :
       \E inc \in SeqsUpTo(Patterns, MaxPat) :
       \E exc \in SeqsUpTo(Patterns, MaxPat) :
       \E must \in SeqsUpTo(Patterns, MaxPat) :
          call = [op |-> "title_matches", title |-> t, include_any |-> inc,
                  exclude_any |-> exc, must_all |-> must,
                  done |-> FALSE, ret |-> FALSE]

TitleMatchesCall ==
    /\ call.op = "title_matches"
    /\ ~call.done
    /\ call' = [call EXCEPT
                  !.done = TRUE,
                  !.ret = title_matches(call.title, call.include_any,
                                        call.exclude_any, call.must_all)]
    /\ UNCHANGED mainVars

SpecTitle == InitTitle /\ [][TitleMatchesCall]_vars

\* location_matches
InitLocation ==
    /\ MainIdle
    /\ creds = Present({})
    /\ \E locs \in SeqsUpTo(LocationStrings, MaxLocs) :
       \E allowed \in SeqsUpTo(Hints, MaxPat) :
          call = [op |-> "location_matches", locations |-> locs,
                  allowed |-> allowed, done |-> FALSE, ret |-> FALSE]

LocationMatchesCall ==
    /\ call.op = "location_matches"
    /\ ~call.done
    /\ call' = [call EXCEPT
                  !.done = TRUE,
                  !.ret = location_matches(call.locations, call.allowed)]
    /\ UNCHANGED mainVars

SpecLocation == InitLocation /\ [][LocationMatchesCall]_vars

\* notify: every combination of the six credentials, every script of answers
NoResult == [sink |-> "none", text |-> "", requests |-> 0, raised |-> FALSE]

InitNotify ==
    /\ MainIdle
    /\ creds \in [CredNames -> BOOLEAN]
    /\ \E script \in [1..MaxAttempts -> Responses] :
          call = [op |-> "notify", text |-> "heartbeat", script |-> script,
                  done |-> FALSE, ret |-> NoResult]

NotifyCall ==
    /\ call.op = "notify"
    /\ ~call.done
    /\ call' = [call EXCEPT
                  !.done = TRUE,
                  !.ret = notify(call.text, call.script)]
    /\ UNCHANGED mainVars

SpecNotify == InitNotify /\ [][NotifyCall]_vars

-----------------------------------------------------------------------------
(* Properties *)

FetchedJobs == Range(all_jobs)
NotifiedIds == {notifyCalls[k].id : k \in DOMAIN notifyCalls}
DeliveryFailed == \E k \in DOMAIN notifyCalls : notifyCalls[k].raised
SavedIds == Range(seenFile.ids)

\* the pattern occurs in the title at some position, letter case ignored
PatternMatches(p, title) ==
    \E k \in 1..(Len(title) + 1) :
        /\ k + Len(p) - 1 <= Len(title)
        /\ \A m \in 1..Len(p) : LowerChar(title[k + m - 1]) = LowerChar(p[m])

\* C1: in a run of main(), notify is never called for a posting whose id is in
\* the seen-set loaded at the start of the run, whatever its title, its
\* locations and the filters.
C1_SeenNeverNotified == \A id \in NotifiedIds : id \notin seen_ids

\* a run has passed over a fetched posting that was already seen and that
\* passes the title and location filters
C1_Witness ==
    /\ pc = "done"
    /\ \E j \in FetchedJobs : j.id \in seen_ids /\ PassesFilters(j)

\* C2: when main() runs twice in succession and every adapter returns in the
\* second run what it returned in the first, the second run calls notify for
\* no posting.
C2_SecondRunNotifiesNothing ==
    (run > 1 /\ sameBoards) => notifyCalls = <<>>

\* C3: at the end of a completed run the saved seen-set holds the id of every
\* posting fetched in the run, whether or not it passed the filters.
C3_AllFetchedSaved ==
    pc = "done" => \A j \in FetchedJobs : j.id \in SavedIds

\* C3 (amended): at the end of a completed run the saved seen-set holds exactly
\* the ids loaded at the start and the ids of the fetched postings that passed
\* the title and location filters; a new posting that fails them is not saved.
C3_SavedIsSeenPlusMatching ==
    pc = "done" =>
        \A id \in Ids :
            id \in SavedIds <=>
                \/ id \in seen_ids
                \/ \E j \in FetchedJobs : j.id = id /\ PassesFilters(j)

\* a completed run fetched a new posting that fails the filters, and one that
\* passes them
C3_Witness ==
    /\ pc = "done"
    /\ \E j \in FetchedJobs : j.id \notin seen_ids /\ ~PassesFilters(j)
    /\ \E j \in FetchedJobs : j.id \notin seen_ids /\ PassesFilters(j)

\* C4: when the delivery of a notification fails in a run, the run still
\* reaches the persist step: it does not end by the exception, and it ends
\* with the seen-state file holding the updated seen-set.
C4_PersistsAfterDeliveryFailure ==
    DeliveryFailed =>
        /\ pc # "aborted"
        /\ pc = "done" => seenFile = save_seen(sorted(new_seen))

\* C5: for every combination of the six credentials, notify hands the text to
\* exactly one sink: the chat bot when both its credentials are present,
\* otherwise the gateway when its four credentials are present, otherwise
\* stdout; never to no sink.
C5_OneSinkByPrecedence ==
    (call.op = "notify" /\ call.done) =>
        call.ret.sink =
            IF creds["TELEGRAM_BOT_TOKEN"] /\ creds["TELEGRAM_CHAT_ID"]
            THEN "telegram"
            ELSE IF creds["TWILIO_SID"] /\ creds["TWILIO_TOKEN"]
                    /\ creds["TWILIO_FROM"] /\ creds["TWILIO_TO"]
            THEN "twilio"
            ELSE "stdout"

\* C6: title_matches returns true exactly when no exclude pattern matches the
\* title, every must-have-all pattern matches it, and the include list is
\* empty or one of its patterns matches it; so with must-have-all [senior] and
\* include [engineer], "Senior Engineer" passes, "Senior Manager" and "Staff
\* Engineer" fail.
C6_TitleMatchesRule ==
    (call.op = "title_matches" /\ call.done) =>
        /\ call.ret <=>
              /\ \A k \in DOMAIN call.exclude_any :
                    ~PatternMatches(call.exclude_any[k], call.title)
              /\ \A k \in DOMAIN call.must_all :
                    PatternMatches(call.must_all[k], call.title)
              /\ \/ call.include_any = <<>>
                 \/ \E k \in DOMAIN call.include_any :
                       PatternMatches(call.include_any[k], call.title)
        /\ (/\ call.must_all = <<P_senior>>
            /\ call.include_any = <<P_engineer>>
            /\ call.exclude_any = <<>>) =>
              /\ call.title = T_SeniorEngineer => call.ret
              /\ call.title = T_SeniorManager => ~call.ret
              /\ call.title = T_StaffEngineer => ~call.ret

\* title_matches has rejected a title that matches an exclude pattern and an
\* include pattern
C6_Witness ==
    /\ call.op = "title_matches" /\ call.done /\ ~call.ret
    /\ call.must_all = <<>>
    /\ \E k \in DOMAIN call.exclude_any :
          PatternMatches(call.exclude_any[k], call.title)
    /\ \E k \in DOMAIN call.include_any :
          PatternMatches(call.include_any[k], call.title)

\* C7: in a run of main(), a posting is passed to notify only if its title
\* matches every pattern of must_have_all of the filters config.
C7_MustHaveAllEnforced ==
    \A k \in DOMAIN notifyCalls :
        \A m \in DOMAIN filters.must_have_all :
            PatternMatches(filters.must_have_all[m], notifyCalls[k].text.title)

\* C8: location_matches returns true when no hints are configured, false when
\* hints are configured and the posting has no locations, and otherwise true
\* exactly when some location contains some hint, letter case ignored.
C8_LocationMatchesRule ==
    (call.op = "location_matches" /\ call.done) =>
        /\ call.allowed = <<>> => call.ret
        /\ (call.allowed # <<>> /\ call.locations = <<>>) => ~call.ret
        /\ (call.allowed # <<>> /\ call.locations # <<>>) =>
              (call.ret <=>
                  \E l \in DOMAIN call.locations :
                      \E a \in DOMAIN call.allowed :
                          PatternMatches(call.allowed[a], call.locations[l]))

\* location_matches has rejected a posting without locations under configured
\* hints
C8_Witness ==
    /\ call.op = "location_matches" /\ call.done /\ ~call.ret
    /\ call.allowed # <<>>
    /\ call.locations = <<>>

\* the new postings of the run that pass the filters
NewMatchingIds ==
    {j.id : j \in {x \in FetchedJobs : x.id \notin seen_ids /\ PassesFilters(x)}}

GatewayInUse ==
    /\ ~(creds["TELEGRAM_BOT_TOKEN"] /\ creds["TELEGRAM_CHAT_ID"])
    /\ creds["TWILIO_SID"] /\ creds["TWILIO_TOKEN"]
    /\ creds["TWILIO_FROM"] /\ creds["TWILIO_TO"]

RateLimited(r) == ~r.exc /\ r.code = 429
Succeeds(r) == ~r.exc /\ r.code = 200

NoLoad == [raised |-> FALSE, ids |-> <<>>]

InitStore ==
    /\ MainIdleState
    /\ creds = Present({})
    /\ seenFile \in {f \in SeenFilesAtStart : f.st # "corrupt"}
    /\ \E ids \in SeqsUpTo(Ids, MaxSave) :
          call = [op |-> "save_seen", seen_ids |-> ids, prior |-> seenFile,
                  step |-> "start", loaded |-> FALSE, ret |-> NoLoad]

\* open(mode="w") of write_text
SaveOpen ==
    /\ call.op = "save_seen"
    /\ call.step = "start"
    /\ seenFile' = Truncated
    /\ call' = [call EXCEPT !.step = "opened"]
    /\ UNCHANGED idleVars

\* f.write(data) and the close of write_text
SaveWrite ==
    /\ call.op = "save_seen"
    /\ call.step = "opened"
    /\ seenFile' = save_seen(call.seen_ids)
    /\ call' = [call EXCEPT !.step = "closed"]
    /\ UNCHANGED idleVars

\* the process is ended during save_seen
SaveCrash ==
    /\ call.op = "save_seen"
    /\ call.step \in {"start", "opened"}
    /\ call' = [call EXCEPT !.step = "crashed"]
    /\ UNCHANGED mainVars

\* load_seen() of the next process
LoadCall ==
    /\ call.op = "save_seen"
    /\ call.step \in {"closed", "crashed"}
    /\ ~call.loaded
    /\ call' = [call EXCEPT
                  !.loaded = TRUE,
                  !.ret = IF load_seen_raises THEN [raised |-> TRUE, ids |-> <<>>]
                          ELSE [raised |-> FALSE, ids |-> load_seen.ids]]
    /\ UNCHANGED mainVars

NextStore == SaveOpen \/ SaveWrite \/ SaveCrash \/ LoadCall

SpecStore == InitStore /\ [][NextStore]_vars

-----------------------------------------------------------------------------
(* fetch_workday_cxs: one POST per host prefix, in the order of bases *)

bases == <<"wd5", "wd1">>

\* an item of jobPostings: "good" is normalized to a posting, "bad" makes
\* the normalization raise (a bulletFields that is not a mapping, an
\* externalPath that is not a string, an item that is not a mapping)
ItemKinds == {"good", "bad"}

\* what a host answers to the POST: the request raises; a status >= 400; a
\* status < 400 with a body r.json() cannot parse; a status < 400 with a
\* parsed body and its jobPostings
HostAnswers ==
    {[kind |-> k, items |-> <<>>] : k \in {"exc", "status_error", "not_json"}}
    \cup {[kind |-> "ok", items |-> it] : it \in SeqsUpTo(ItemKinds, MaxItems)}

\* the first item whose normalization raises, 0 when there is none
FirstBad(items) ==
    IF \E k \in DOMAIN items : items[k] = "bad"
    THEN CHOOSE k \in DOMAIN items :
            items[k] = "bad" /\ \A m \in 1..(k - 1) : items[m] = "good"
    ELSE 0

\* the postings jobs.append has added when the for loop over the items ends
\* or raises; each carries the host whose response it was read from
Appended(host, items) ==
    LET n == IF FirstBad(items) = 0 THEN Len(items) ELSE FirstBad(items) - 1
    IN [k \in 1..n |-> [host |-> host, item |-> k]]

\* the loop is left on every response with a status below 400
ReachesBreakOnStatus(answer) == answer.kind \in {"not_json", "ok"}
\* the attempt reaches the break: status < 400, body parsed, every item
\* normalized
ReachesBreak(answer) == answer.kind = "ok" /\ FirstBad(answer.items) = 0

InitWorkday ==
    /\ MainIdle
    /\ creds = Present({})
    /\ \E a5 \in HostAnswers : \E a1 \in HostAnswers :
          call = [op |-> "fetch_workday_cxs", answers |-> <<a5, a1>>,
                  base |-> 1, jobs |-> <<>>, contacted |-> <<>>,
                  done |-> FALSE, ret |-> <<>>]

\* one pass of the loop over bases
WorkdayAttempt ==
    /\ call.op = "fetch_workday_cxs"
    /\ ~call.done
    /\ call.base <= Len(bases)
    /\ LET answer == call.answers[call.base] IN
       call' = [call EXCEPT
                  !.contacted = Append(@, bases[call.base]),
                  !.jobs = IF answer.kind = "ok"
                           THEN @ \o Appended(bases[call.base], answer.items)
                           ELSE @,
                  !.base = IF ReachesBreak(answer) THEN Len(bases) + 1
                           ELSE @ + 1]
    /\ UNCHANGED mainVars

\* return jobs
WorkdayReturn ==
    /\ call.op = "fetch_workday_cxs"
    /\ ~call.done
    /\ call.base > Len(bases)
    /\ call' = [call EXCEPT !.done = TRUE, !.ret = call.jobs]
    /\ UNCHANGED mainVars

NextWorkday == WorkdayAttempt \/ WorkdayReturn

SpecWorkday == InitWorkday /\ [][NextWorkday]_vars

-----------------------------------------------------------------------------
(* fetch_amazon: one GET per page, at most max_pages of them *)

\* the default of the parameter max_pages, the only value main() uses
max_pages == 3
\* params["result_limit"], the step of the offset
result_limit == 50

\* what the endpoint answers to the GET of a page: the request raises; a
\* status raise_for_status rejects; a body r.json() cannot parse; a parsed
\* body and its jobs list, whose items are normalized or make that raise
PageAnswers ==
    {[kind |-> k, items |-> <<>>] : k \in {"exc", "status_error", "not_json"}}
    \cup {[kind |-> "ok", items |-> it] : it \in SeqsUpTo(ItemKinds, MaxItems)}

\* the postings jobs.append has added when the loop over the page ends or
\* raises
PagePostings(offset, items) ==
    LET n == IF FirstBad(items) = 0 THEN Len(items) ELSE FirstBad(items) - 1
    IN [k \in 1..n |-> [offset |-> offset, item |-> k]]

\* the loop is left on an exception only
LeavesLoopOnException(answer) ==
    answer.kind # "ok" \/ FirstBad(answer.items) # 0
\* the loop is left: an exception in the try block, or an empty jobs list
LeavesLoop(answer) ==
    \/ answer.kind # "ok"
    \/ FirstBad(answer.items) # 0
    \/ answer.items = <<>>

InitAmazon ==
    /\ MainIdle
    /\ creds = Present({})
    /\ \E answers \in [1..max_pages -> PageAnswers] :
          call = [op |-> "fetch_amazon", answers |-> answers, page |-> 1,
                  offset |-> 0, requests |-> <<>>, jobs |-> <<>>,
                  done |-> FALSE, ret |-> <<>>]

\* one pass of the loop over range(max_pages)
AmazonPage ==
    /\ call.op = "fetch_amazon"
    /\ ~call.done
    /\ call.page <= max_pages
    /\ LET answer == call.answers[call.page] IN
       call' = [call EXCEPT
                  !.requests = Append(@, call.offset),
                  !.jobs = IF answer.kind = "ok"
                           THEN @ \o PagePostings(call.offset, answer.items)
                           ELSE @,
                  !.offset = IF LeavesLoop(answer) THEN @ ELSE @ + result_limit,
                  !.page = IF LeavesLoop(answer) THEN max_pages + 1 ELSE @ + 1]
    /\ UNCHANGED mainVars

\* return jobs
AmazonReturn ==
    /\ call.op = "fetch_amazon"
    /\ ~call.done
    /\ call.page > max_pages
    /\ call' = [call EXCEPT !.done = TRUE, !.ret = call.jobs]
    /\ UNCHANGED mainVars

NextAmazon == AmazonPage \/ AmazonReturn

\* every request ends within TIMEOUT and the sleep between pages is finite:
\* a pass of the loop that can be taken is taken
SpecAmazon == InitAmazon /\ [][NextAmazon]_vars /\ WF_vars(NextAmazon)

-----------------------------------------------------------------------------
(* Properties of runs with failing adapters, of the seen-state and of       *)
(* repeated runs                                                            *)

AllSources == <<"greenhouse", "lever", "workday", "amazon">>

RECURSIVE ConcatJobs(_)
ConcatJobs(outcomes) ==
    IF outcomes = <<>> THEN <<>>
    ELSE (IF Head(outcomes).raised THEN <<>> ELSE Head(outcomes).jobs)
         \o ConcatJobs(Tail(outcomes))

\* the postings of the adapters that did not fail, in the order of the calls
SuccessfulJobs == ConcatJobs([k \in 1..4 |-> boards[AllSources[k]]])

AdapterFailed == \E f \in DOMAIN boards : boards[f].raised

C12_NoDuplicateAcrossRuns ==
    \A k \in DOMAIN notifyCalls :
        Delivered(notifyCalls[k]) => notifyCalls[k].id \notin delivered

\* C13: with the seen-state file absent the run proceeds from the empty set;
\* with the file unparsable the run ends by the exception before any adapter
\* is called or any notification is sent, and the file is never written.
C13_LoadSeenFailsClosed ==
    /\ [](/\ seenFile.st = "corrupt" =>
                /\ pc \in {"start", "aborted"}
                /\ fetched = <<>>
                /\ notifyCalls = <<>>
          /\ (seenFile.st = "absent" /\ pc # "start") =>
                /\ seen_ids = {}
                /\ pc = "aborted" => DeliveryFailed)
    /\ [][seenFile.st = "corrupt" => seenFile' = seenFile]_vars

\* a run has ended on the unparsable file, and another has passed the load
\* with no file
C13_Witness == pc = "aborted" /\ seenFile.st = "corrupt" /\ run = MaxRuns
C13_WitnessAbsent ==
    /\ seenFile.st = "absent"
    /\ pc = "filter"
    /\ all_jobs # <<>>

\* the set in the file main() has read
LoadedIds == IF seenFile.st = "ok" THEN SavedIds ELSE {}

\* C15: at every point of a run the in-memory seen-set contains the set
\* loaded at the start, ids are only ever added to it, and the set written at
\* the end of a completed run contains the set read at its start.
C15_SeenSetOnlyGrows ==
    /\ [](/\ pc # "start" => seen_ids \subseteq new_seen
          /\ pc \in {"greenhouse", "lever", "workday", "amazon", "filter"} =>
                seen_ids = LoadedIds
          /\ pc = "done" => seen_ids \subseteq SavedIds)
    /\ [][run' = run => new_seen \subseteq new_seen']_vars

\* a completed run that loaded ids and added one
C15_Witness ==
    /\ pc = "done"
    /\ seen_ids # {}
    /\ new_seen # seen_ids

\* C20: within a run notify is called at most once per posting id, also when
\* the candidate list holds the id several times, and an id enters the
\* in-memory seen-set only when the call of notify for it has returned.
C20_OncePerIdAddAfterNotify ==
    /\ \A a, b \in DOMAIN notifyCalls :
          a # b => notifyCalls[a].id # notifyCalls[b].id
    /\ pc # "start" =>
          \A id \in new_seen \ seen_ids :
             \E k \in DOMAIN notifyCalls :
                notifyCalls[k].id = id /\ ~notifyCalls[k].raised
    /\ \A k \in DOMAIN notifyCalls :
          notifyCalls[k].raised => notifyCalls[k].id \notin new_seen

\* the loop has passed both entries of an id that the candidate list holds
\* twice, and has notified it
C20_Witness ==
    \E a, b \in DOMAIN all_jobs :
        /\ a < b /\ b < idx
        /\ all_jobs[a].id = all_jobs[b].id
        /\ all_jobs[a].id \in NotifiedIds

-----------------------------------------------------------------------------
(* Properties of the seen-state store *)

\* C14: in every state of a save_seen, the process ended at any point
\* included, the file holds the complete prior contents or the complete new
\* contents.
C14_WriteAllOrNothing ==
    call.op = "save_seen" =>
        seenFile \in {call.prior, save_seen(call.seen_ids)}

-----------------------------------------------------------------------------
(* Properties of fetch_workday_cxs *)

InWorkday == call.op = "fetch_workday_cxs"

\* the response had a status below 400
NonErrorStatus(answer) == answer.kind \in {"not_json", "ok"}

\* the attempt ended in the continue of the status test or in the handler
AttemptFailed(answer) ==
    \/ answer.kind \in {"exc", "status_error", "not_json"}
    \/ \E k \in DOMAIN answer.items : answer.items[k] = "bad"

\* the hosts are contacted in the order of bases
ContactedInOrder ==
    \E n \in 0..Len(bases) : call.contacted = SubSeq(bases, 1, n)

\* no postings only if every host failed or the successful one had none
EmptyOnlyIfFailedOrNone ==
    (call.done /\ call.ret = <<>>) =>
        \/ \A k \in DOMAIN bases : AttemptFailed(call.answers[k])
        \/ \E k \in DOMAIN bases :
              /\ ~AttemptFailed(call.answers[k])
              /\ call.answers[k].items = <<>>

\* C17 (as written): the hosts are tried in the order wd5, wd1; wd1 is
\* contacted only if the wd5 attempt failed; the function stops at the first
\* host that returns a non-error status, contacting no later host; the tenant
\* yields no postings only if every host failed or the successful host
\* returned none.
C17_StopsAtFirstNonErrorStatus ==
    InWorkday =>
        /\ ContactedInOrder
        /\ "wd1" \in Range(call.contacted) => AttemptFailed(call.answers[1])
        /\ NonErrorStatus(call.answers[1]) => "wd1" \notin Range(call.contacted)
        /\ EmptyOnlyIfFailedOrNone

\* C17 (amended): the hosts are tried in the order wd5, wd1; wd1 is contacted
\* exactly if the wd5 attempt failed, where an attempt fails by a request
\* exception, by a status >= 400, or by an exception while the body of a
\* response with a non-error status is parsed or its items are normalized;
\* the function stops at the first host whose attempt completes, and the
\* tenant yields no postings only if every host failed or the successful host
\* returned none.
C17_StopsAtFirstCompletedAttempt ==
    InWorkday =>
        /\ ContactedInOrder
        /\ "wd1" \in Range(call.contacted) => AttemptFailed(call.answers[1])
        /\ call.done =>
              /\ call.contacted # <<>>
              /\ ("wd1" \in Range(call.contacted)
                    <=> AttemptFailed(call.answers[1]))
        /\ EmptyOnlyIfFailedOrNone

\* wd5 answered with a non-error status and a body that could not be used,
\* and the function has gone on to wd1 and returned its postings
C17_Witness ==
    /\ InWorkday
    /\ call.done
    /\ call.answers[1].kind = "not_json"
    /\ call.contacted = bases
    /\ call.ret # <<>>

\* C19: every list fetch_workday_cxs returns holds postings of the response
\* of one host only, also when the normalization of an item raised.
C19_OneHostPerResult ==
    (InWorkday /\ call.done) =>
        \A a, b \in DOMAIN call.ret : call.ret[a].host = call.ret[b].host

-----------------------------------------------------------------------------
(* Properties of fetch_amazon *)

InAmazon == call.op = "fetch_amazon"

\* the page was read to its end and held postings
PageReadNonEmpty(answer) ==
    /\ answer.kind = "ok"
    /\ answer.items # <<>>
    /\ \A k \in DOMAIN answer.items : answer.items[k] = "good"

\* the items of a page that precede its first unreadable item
ReadableItems(answer) ==
    {k \in DOMAIN answer.items : \A m \in 1..k : answer.items[m] = "good"}

AmazonSafe ==
    InAmazon =>
        /\ Len(call.requests) <= max_pages
        /\ \A k \in DOMAIN call.requests :
              call.requests[k] = result_limit * (k - 1)
        /\ \A k \in DOMAIN call.requests :
              k < Len(call.requests) => PageReadNonEmpty(call.answers[k])
        /\ call.done =>
              /\ Range(call.ret) =
                    UNION {{[offset |-> call.requests[k], item |-> i] :
                               i \in ReadableItems(call.answers[k])} :
                           k \in DOMAIN call.requests}
              /\ \A a, b \in DOMAIN call.ret :
                    a < b =>
                       \/ call.ret[a].offset < call.ret[b].offset
                       \/ /\ call.ret[a].offset = call.ret[b].offset
                          /\ call.ret[a].item < call.ret[b].item

\* C18: fetch_amazon terminates; it issues at most max_pages requests, the
\* k-th with offset result_limit * (k - 1); it issues no request after a page
\* with an empty list or after a failed pass; it returns, in order, the
\* postings of every page it read.
C18_AmazonPagination == []AmazonSafe /\ <>(InAmazon /\ call.done)

\* the function has returned the postings of two pages after the empty
\* third page ended the paging within the ceiling
C18_Witness ==
    /\ InAmazon
    /\ call.done
    /\ call.requests = <<0, result_limit, 2 * result_limit>>
    /\ call.answers[3].items = <<>>
    /\ call.answers[3].kind = "ok"
    /\ \E p \in Range(call.ret) : p.offset = result_limit

\* the paging has ended before the ceiling on an empty page
C18_WitnessEmptyPage ==
    /\ InAmazon
    /\ call.done
    /\ Len(call.requests) = 2
    /\ call.answers[2] = [kind |-> "ok", items |-> <<>>]
    /\ call.ret # <<>>

=============================================================================
